---------------------------- MODULE Spec2Model ----------------------------
(***************************************************************************)
(* Model of GOES16_satellite_in_classroom.ipynb: the notebook's code cells  *)
(* are the actions, the kernel's global names are the variables.            *)
(*                                                                         *)
(* The notebook computes on numpy float arrays.  Numbers are modelled as a  *)
(* small binary floating-point format with the IEEE-754 structure numpy     *)
(* uses: PREC significant bits, a bounded exponent, round-to-nearest-even,  *)
(* gradual underflow, signed zero, +-infinity and NaN.  A division by zero  *)
(* gives an infinity, log(0) gives -infinity, log and sqrt of a negative    *)
(* number give NaN, and nothing raises (the notebook silences warnings).    *)
(***************************************************************************)
EXTENDS Integers, Sequences, FiniteSets, TLC

(***************************************************************************)
(* The floating-point format.                                               *)
(***************************************************************************)
PREC == 10          \* significant bits of a float
EMAX == 40          \* largest binary exponent: the largest float is < 2^(EMAX+1)
FRAC == 15          \* fraction bits of the fixed-point kernel of log and exp

QMAX == EMAX - PREC + 1        \* largest exponent of the last mantissa bit
QMIN == 2 - EMAX - PREC        \* smallest one (subnormal numbers included)

Pow2(k) == 2 ^ k

RECURSIVE BitLen(_)
BitLen(n) == IF n = 0 THEN 0 ELSE 1 + BitLen(n \div 2)

Abs(n) == IF n < 0 THEN -n ELSE n

\* Python calls by value: an operation's arguments are computed once, before
\* the operation, and its result is a value computed in full.
Value(a) == CHOOSE v \in {a} : v = v
Call1(Op(_), a) == CHOOSE r \in {Op(v) : v \in {Value(a)}} : r = r
Call2(Op(_, _), a, b) ==
    CHOOSE r \in {Op(v, w) : v \in {Value(a)}, w \in {Value(b)}} : r = r

NaN  == [k |-> "nan", s |-> 1, m |-> 0, e |-> 0]
PInf == [k |-> "inf", s |-> 1, m |-> 0, e |-> 0]
NInf == [k |-> "inf", s |-> -1, m |-> 0, e |-> 0]
Inf(sg) == IF sg < 0 THEN NInf ELSE PInf
Zero(sg) == [k |-> "fin", s |-> sg, m |-> 0, e |-> QMIN]

IsNaN(a) == a.k = "nan"
IsInf(a) == a.k = "inf"
IsFinite(a) == a.k = "fin"
IsZero(a) == a.k = "fin" /\ a.m = 0

\* Rounding to nearest, ties to even, of M / 2^sh.
RoundedQuotient(M, sh, sticky) ==
    LET q == M \div Pow2(sh)
        r == M % Pow2(sh)
        half == Pow2(sh - 1)
    IN  IF r > half \/ (r = half /\ (sticky \/ q % 2 = 1)) THEN q + 1 ELSE q

\* The shift that leaves PREC bits of M, or fewer below the normal range.
Shift(M, E) ==
    Call1(LAMBDA sh0 : IF E + sh0 < QMIN THEN QMIN - E ELSE sh0,
    BitLen(M) - PREC)

Finite(sg, q, qe) ==
    IF q = 0 THEN Zero(sg)
    ELSE IF q = Pow2(PREC)
    THEN IF qe + 1 > QMAX THEN Inf(sg)
         ELSE [k |-> "fin", s |-> sg, m |-> Pow2(PREC - 1), e |-> qe + 1]
    ELSE IF qe > QMAX THEN Inf(sg)
    ELSE [k |-> "fin", s |-> sg, m |-> q, e |-> qe]

\* The float nearest to sg * M * 2^E (M > 0); sticky says that the exact
\* value lies strictly between M * 2^E and (M + 1) * 2^E.
Round(sg, M0, E0, sticky) ==
    Call2(LAMBDA M, E :
        Call1(LAMBDA sh :
            IF sh > 30 THEN Zero(sg)
            ELSE IF sh <= 0 THEN Finite(sg, M * Pow2(-sh), E + sh)
            ELSE Call1(LAMBDA q : Finite(sg, q, E + sh),
                 RoundedQuotient(M, sh, sticky)),
        Shift(M, E)),
    M0, E0)

FromInt(n) == IF n = 0 THEN Zero(1)
              ELSE Round(IF n < 0 THEN -1 ELSE 1, Abs(n), 0, FALSE)

FNeg(a0) ==
    Call1(LAMBDA a : IF IsNaN(a) THEN NaN ELSE [a EXCEPT !.s = -a.s], a0)

FMul(a0, b0) ==
    Call2(LAMBDA a, b :
        IF IsNaN(a) \/ IsNaN(b) THEN NaN
        ELSE IF (IsInf(a) /\ IsZero(b)) \/ (IsZero(a) /\ IsInf(b)) THEN NaN
        ELSE IF IsInf(a) \/ IsInf(b) THEN Inf(a.s * b.s)
        ELSE IF a.m = 0 \/ b.m = 0 THEN Zero(a.s * b.s)
        ELSE Round(a.s * b.s, a.m * b.m, a.e + b.e, FALSE),
    a0, b0)

FDiv(a0, b0) ==
    Call2(LAMBDA a, b :
        IF IsNaN(a) \/ IsNaN(b) THEN NaN
        ELSE IF IsInf(a) /\ IsInf(b) THEN NaN
        ELSE IF IsInf(a) THEN Inf(a.s * b.s)
        ELSE IF IsInf(b) THEN Zero(a.s * b.s)
        ELSE IF a.m = 0 /\ b.m = 0 THEN NaN
        ELSE IF b.m = 0 THEN Inf(a.s * b.s)
        ELSE IF a.m = 0 THEN Zero(a.s * b.s)
        ELSE Call1(LAMBDA kk :
                Round(a.s * b.s, (a.m * Pow2(kk)) \div b.m, a.e - kk - b.e,
                      (a.m * Pow2(kk)) % b.m # 0),
             2 * PREC + 2 - BitLen(a.m)),
    a0, b0)

FAdd(a0, b0) ==
    Call2(LAMBDA a, b :
        IF IsNaN(a) \/ IsNaN(b) THEN NaN
        ELSE IF IsInf(a) /\ IsInf(b) THEN (IF a.s = b.s THEN a ELSE NaN)
        ELSE IF IsInf(a) THEN a
        ELSE IF IsInf(b) THEN b
        ELSE IF a.m = 0 /\ b.m = 0 THEN Zero(IF a.s = -1 /\ b.s = -1 THEN -1 ELSE 1)
        ELSE IF a.m = 0 THEN b
        ELSE IF b.m = 0 THEN a
        ELSE LET hi == IF a.e >= b.e THEN a ELSE b
                 lo == IF a.e >= b.e THEN b ELSE a
                 d == hi.e - lo.e
             IN  IF d > PREC + 2
                 THEN IF hi.s = lo.s
                      THEN Round(hi.s, hi.m * 4, hi.e - 2, TRUE)
                      ELSE Round(hi.s, hi.m * 4 - 1, hi.e - 2, TRUE)
                 ELSE Call1(LAMBDA sum :
                        IF sum = 0 THEN Zero(1)
                        ELSE Round(IF sum < 0 THEN -1 ELSE 1, Abs(sum), lo.e, FALSE),
                      hi.s * hi.m * Pow2(d) + lo.s * lo.m),
    a0, b0)

FSub(a, b) == FAdd(a, FNeg(b))

\* IEEE comparisons: false whenever an operand is NaN; -0 equals +0.
FCmpKey(a) == IF IsInf(a) THEN <<a.s, QMAX + 1, 0>>
              ELSE IF a.m = 0 THEN <<0, 0, 0>>
              ELSE <<a.s, a.e, a.m>>

KeyLt(x0, y0) ==
    Call2(LAMBDA x, y :
        IF x[1] # y[1] THEN x[1] < y[1]
        ELSE IF x[1] = 0 THEN FALSE
        ELSE IF x[1] = 1
             THEN x[2] < y[2] \/ (x[2] = y[2] /\ x[3] < y[3])
             ELSE x[2] > y[2] \/ (x[2] = y[2] /\ x[3] > y[3]),
    x0, y0)

FLt(a0, b0) ==
    Call2(LAMBDA a, b :
        ~IsNaN(a) /\ ~IsNaN(b) /\ KeyLt(FCmpKey(a), FCmpKey(b)),
    a0, b0)
FEq(a0, b0) ==
    Call2(LAMBDA a, b :
        ~IsNaN(a) /\ ~IsNaN(b) /\ FCmpKey(a) = FCmpKey(b),
    a0, b0)
FLe(a0, b0) ==
    Call2(LAMBDA a, b : FLt(a, b) \/ FEq(a, b), a0, b0)

RECURSIVE ISqrt(_)
ISqrt(n) == IF n < 2 THEN n
            ELSE Call1(LAMBDA r : IF (r + 1) * (r + 1) <= n THEN r + 1 ELSE r,
                 2 * ISqrt(n \div 4))

\* numpy.sqrt: NaN for a negative argument, correctly rounded otherwise.
FSqrt(a0) ==
    Call1(LAMBDA a :
        IF IsNaN(a) THEN NaN
        ELSE IF IsZero(a) THEN a
        ELSE IF a.s < 0 THEN NaN
        ELSE IF IsInf(a) THEN PInf
        ELSE Call1(LAMBDA kk :
                Call1(LAMBDA r :
                    Round(1, r, (a.e - kk) \div 2, r * r # a.m * Pow2(kk)),
                ISqrt(a.m * Pow2(kk))),
             IF (a.e - BitLen(a.m)) % 2 = 0 THEN 2 * PREC + 2 - BitLen(a.m)
             ELSE 2 * PREC + 1 - BitLen(a.m)),
    a0)

(***************************************************************************)
(* log and exp are evaluated in fixed point with FRAC fraction bits and     *)
(* the result is rounded to a float, as a libm evaluates them in a wider    *)
(* format and rounds.                                                       *)
(***************************************************************************)
FONE == Pow2(FRAC)
LN2F == (Pow2(FRAC - 3) * 45426) \div 8192      \* ln 2 in fixed point

\* atanh(z)/z = 1 + z^2/3 + z^4/5 + ... in fixed point, for 0 <= z <= 1/3.
AtanhPoly(z20) ==
    Call1(LAMBDA z2 :
        LET t9 == FONE \div 11
            t7 == FONE \div 9 + (z2 * t9) \div FONE
            t5 == FONE \div 7 + (z2 * t7) \div FONE
            t3 == FONE \div 5 + (z2 * t5) \div FONE
            t1 == FONE \div 3 + (z2 * t3) \div FONE
        IN  FONE + (z2 * t1) \div FONE,
    z20)

\* ln(1 + u) / u in fixed point, for the fraction 0 <= u < 1.
LogRatio(u) ==
    Call1(LAMBDA half :
        Call1(LAMBDA z :
            ((Pow2(2 * FRAC) \div half) * AtanhPoly((z * z) \div FONE)) \div FONE,
        (u * (FONE \div 2)) \div half),                 \* u / (2 + u)
    (2 * FONE + u) \div 2)

\* numpy.log: -inf at zero, NaN below zero, +inf at +inf.
FLog(a0) ==
    Call1(LAMBDA a :
        IF IsNaN(a) THEN NaN
        ELSE IF IsZero(a) THEN NInf
        ELSE IF a.s < 0 THEN NaN
        ELSE IF IsInf(a) THEN PInf
        ELSE Call1(LAMBDA bl :
                \* a = f * 2^ex with 1 <= f < 2, and u = f - 1
                Call2(LAMBDA ex, u :
                    IF ex = 0
                    THEN IF u = 0 THEN Zero(1)
                         ELSE Round(1, u * LogRatio(u), -2 * FRAC, TRUE)
                    ELSE Call1(LAMBDA R :
                            IF R = 0 THEN Zero(1)
                            ELSE Round(IF R < 0 THEN -1 ELSE 1, Abs(R), -FRAC, TRUE),
                         ex * LN2F + (u * LogRatio(u)) \div FONE),
                a.e + bl - 1, (a.m - Pow2(bl - 1)) * Pow2(FRAC - bl + 1)),
             BitLen(a.m)),
    a0)

\* exp(r) in fixed point for 0 <= r < ln 2.
ExpPoly(r0) ==
    Call1(LAMBDA r :
        LET t8 == FONE + r \div 8
            t7 == FONE + (((r \div 7) * t8) \div FONE)
            t6 == FONE + (((r \div 6) * t7) \div FONE)
            t5 == FONE + (((r \div 5) * t6) \div FONE)
            t4 == FONE + (((r \div 4) * t5) \div FONE)
            t3 == FONE + (((r \div 3) * t4) \div FONE)
            t2 == FONE + (((r \div 2) * t3) \div FONE)
        IN  FONE + (r * t2) \div FONE,
    r0)

\* The fixed-point value of a finite float of magnitude below 2^7.
ToFixed(a) ==
    LET sh == a.e + FRAC
    IN  a.s * (IF sh >= 0 THEN a.m * Pow2(sh)
               ELSE IF sh < -30 THEN 0
               ELSE (a.m + Pow2(-sh - 1)) \div Pow2(-sh))

\* numpy.exp: +inf on overflow, 0 on underflow.
FExp(a0) ==
    Call1(LAMBDA a :
        IF IsNaN(a) THEN NaN
        ELSE IF IsInf(a) THEN (IF a.s > 0 THEN PInf ELSE Zero(1))
        ELSE IF a.m = 0 THEN FromInt(1)
        ELSE IF a.e + BitLen(a.m) > 7 THEN (IF a.s > 0 THEN PInf ELSE Zero(1))
        ELSE Call1(LAMBDA X :
                Round(1, ExpPoly(X - (X \div LN2F) * LN2F), (X \div LN2F) - FRAC, TRUE),
             ToFixed(a)),
    a0)

\* x ** y for x > 0, as exp(y * log(x)).
FPow(x, y) == FExp(FMul(y, FLog(x)))

\* The float nearest to the ratio n / d of two integers.
FR(n, d) == FDiv(FromInt(n), FromInt(d))
One == FromInt(1)

(***************************************************************************)
(* The notebook's conversions, one operator per formula of a code cell.     *)
(* Arrays are functions on 0 .. n-1 and every formula is numpy's            *)
(* elementwise broadcast of the scalar expression.                          *)
(***************************************************************************)
NCells == 2         \* pixels of a satellite radiance image

Pixels == 0 .. (NCells - 1)

\* The ratio upside down: radiance over fk1.
InversePlanckInverted(k1, k2, L) == FDiv(k2, FLog(FAdd(FDiv(L, k1), One)))

\* T = fk2 / (np.log((fk1 / ir_rad) + 1))
InversePlanck(k1, k2, L) == FDiv(k2, FLog(FAdd(FDiv(k1, L), One)))

\* ir_BT = bc2*T + bc1
ScaleOffset(c1, c2, t) == FAdd(FMul(c2, t), c1)

\* wv_BT = (fk2 / (np.log((fk1/wv_rad)+1)) - bc1)/bc2
WVBrightness(k1, k2, c1, c2, L) == FDiv(FSub(InversePlanck(k1, k2, L), c1), c2)

\* The notebook's Planck function: L = fk1 / (e^(fk2/T) - 1)
Planck(k1, k2, t) == FDiv(k1, FSub(FExp(FDiv(k2, t)), One))

\* sb_constant = 5.67e-8
StefanBoltzmann == FDiv(FR(567, 100000), FromInt(100000))

\* wv_BT**4
Pow4(t) == LET sq == FMul(t, t) IN FMul(sq, sq)

\* The third power in place of the fourth.
EmittedEnergyCubed(sb, t) == FMul(sb, FMul(FMul(t, t), t))

\* E = sb_constant*wv_BT**4
EmittedEnergy(sb, t) == FMul(sb, Pow4(t))

\* The root of the product's magnitude.
ReflectanceOfMagnitude(L, kappa) ==
    Call1(LAMBDA p : FSqrt(IF IsNaN(p) THEN p ELSE [p EXCEPT !.s = 1]), FMul(L, kappa))

\* vis = np.sqrt(ds.Rad*ds.kappa0)
Reflectance(L, kappa) == FSqrt(FMul(L, kappa))

(***************************************************************************)
(* The kernel's global names.  pc is the next code cell to run; feed names  *)
(* what the remote THREDDS catalogs serve during the session.               *)
(***************************************************************************)
VARIABLES pc, feed,
          channel, ds, rad, dataproj, x, y, vtime,
          ir_rad, fk1, fk2, bc1, bc2, T, ir_BT,
          wv_rad, wv_BT, sb_constant, E,
          vis,
          lats, lons, slons, slats, sub, pres, tmpk, uwnd, vwnd, thta,
          isentlevs, isentprs, isentu, isentv, ilev

satVars == <<channel, ds, rad, dataproj, x, y, vtime>>
irVars  == <<ir_rad, fk1, fk2, bc1, bc2, T, ir_BT>>
wvVars  == <<wv_rad, wv_BT, sb_constant, E>>
gfsVars == <<lats, lons, slons, slats, sub, pres, tmpk, uwnd, vwnd, thta>>
isenVars == <<isentlevs, isentprs, isentu, isentv, ilev>>
vars == <<pc, feed, satVars, irVars, wvVars, vis, gfsVars, isenVars>>

\* The value of a name no cell has bound yet.
Unbound == [k |-> "unbound"]

(***************************************************************************)
(* What a catalog can serve.  A satellite file holds the radiance image,    *)
(* the band's constants, its coordinate axes and its coverage time.         *)
(***************************************************************************)
SatFile(c, image, k) ==
    [channel |-> c, Rad |-> image,
     planck_fk1 |-> k[1], planck_fk2 |-> k[2],
     planck_bc1 |-> k[3], planck_bc2 |-> k[4], kappa0 |-> k[5],
     x |-> [axis |-> "x", channel |-> c], y |-> [axis |-> "y", channel |-> c],
     crs |-> [proj |-> "geostationary", channel |-> c],
     time_coverage_end |-> [source |-> "GOES16", channel |-> c]]

Images(values) == [Pixels -> values]

\* fk1, fk2, bc1, bc2, kappa0 of the files served.
BandConstants ==
    {<<FromInt(2), FromInt(3), FR(1, 2), FR(127, 128), FR(1, 512)>>,
     <<FromInt(2), FromInt(3), FR(1, 2), FromInt(-1), One>>,
     <<FR(1, 4), FR(1, 4), Zero(1), One, FromInt(-1)>>}

\* Radiances: a fill value (NaN after decoding), zero, the negative values
\* on both sides of -fk1, and positive values up to ones far above fk1.
Radiances ==
    {NaN, Zero(1), FromInt(-1), FromInt(-2), FromInt(-4),
     FR(1, 128), FromInt(5), FromInt(512), FromInt(8192), FromInt(16384)}

ClassroomImages ==
    {[i \in Pixels |-> IF i = 0 THEN a ELSE b] :
        a \in {FromInt(5), FromInt(-4)}, b \in {Zero(1), FromInt(512)}}
    \ {[i \in Pixels |-> IF i = 0 THEN FromInt(-4) ELSE Zero(1)]}

\* The classroom feed: the files of a band carry that band's constants.
ClassroomConstants(c) ==
    IF c = 14 THEN <<FromInt(2), FromInt(3), FR(1, 2), FR(127, 128), FR(1, 512)>>
    ELSE IF c = 9 THEN <<FromInt(2), FromInt(3), One, FR(127, 128), FR(1, 512)>>
    ELSE <<FromInt(2), FromInt(3), FR(1, 2), FR(127, 128), FR(1, 256)>>

SatFiles(f, c) ==
    IF f = "classroom"
    THEN {SatFile(c, im, ClassroomConstants(c)) : im \in ClassroomImages}
    ELSE {SatFile(c, im, k) : im \in Images(Radiances), k \in BandConstants}

(***************************************************************************)
(* The satellite cells.                                                     *)
(***************************************************************************)
\* channel = 14; the catalog lookup that follows picks the latest file.
SetChannel14 ==
    /\ pc = "channel14"
    /\ channel' = 14
    /\ pc' = "open_dataset"
    /\ UNCHANGED <<feed, ds, rad, dataproj, x, y, vtime, irVars, wvVars, vis,
                   gfsVars, isenVars>>

\* ds = xr.open_dataset(latest_file_url)
OpenDataset ==
    /\ pc = "open_dataset"
    /\ \E f \in SatFiles(feed, channel) : ds' = f
    /\ pc' = "projection"
    /\ UNCHANGED <<feed, channel, rad, dataproj, x, y, vtime, irVars, wvVars,
                   vis, gfsVars, isenVars>>

\* datetime.strptime(ds.time_coverage_end, '%Y-%m-%dT%H:%M:%S.%fZ')
CoverageEnd(file) == [valid |-> file.time_coverage_end]

\* rad = ds.metpy.parse_cf('Rad'); dataproj, x, y, vtime from the file
GetProjection ==
    /\ pc = "projection"
    /\ rad' = ds.Rad
    /\ dataproj' = ds.crs
    /\ x' = ds.x
    /\ y' = ds.y
    /\ vtime' = CoverageEnd(ds)
    /\ pc' = "isolate"
    /\ UNCHANGED <<feed, channel, ds, irVars, wvVars, vis, gfsVars, isenVars>>

\* ir_rad = ds.Rad
IsolateRadiance ==
    /\ pc = "isolate"
    /\ ir_rad' = ds.Rad
    /\ pc' = "convert_ir"
    /\ UNCHANGED <<feed, satVars, fk1, fk2, bc1, bc2, T, ir_BT, wvVars, vis,
                   gfsVars, isenVars>>

\* fk1 .. bc2 from the file; T by the inverse Planck function; ir_BT
ConvertIR ==
    /\ pc = "convert_ir"
    /\ fk1' = ds.planck_fk1
    /\ fk2' = ds.planck_fk2
    /\ bc1' = ds.planck_bc1
    /\ bc2' = ds.planck_bc2
    /\ T' = [i \in DOMAIN ir_rad |->
                InversePlanck(ds.planck_fk1, ds.planck_fk2, ir_rad[i])]
    /\ ir_BT' = [i \in DOMAIN ir_rad |->
                ScaleOffset(ds.planck_bc1, ds.planck_bc2,
                    InversePlanck(ds.planck_fk1, ds.planck_fk2, ir_rad[i]))]
    /\ pc' = "wv"
    /\ UNCHANGED <<feed, satVars, ir_rad, wvVars, vis, gfsVars, isenVars>>

\* (the cell without its four constant assignments: the constants stay the
\* ones the infrared cell read)
WaterVaporCellStale ==
    /\ pc = "wv"
    /\ channel' = 9
    /\ \E f \in SatFiles(feed, 9) :
        /\ ds' = f
        /\ rad' = f.Rad
        /\ dataproj' = f.crs
        /\ x' = f.x
        /\ y' = f.y
        /\ vtime' = CoverageEnd(f)
        /\ wv_rad' = f.Rad
        /\ wv_BT' = [i \in DOMAIN f.Rad |->
                        WVBrightness(fk1, fk2, bc1, bc2, f.Rad[i])]
    /\ pc' = "energy"
    /\ UNCHANGED <<feed, ir_rad, fk1, fk2, bc1, bc2, T, ir_BT, sb_constant, E,
                   vis, gfsVars, isenVars>>

\* The water-vapor cell: channel 9's file, its axes and constants, wv_BT.
WaterVaporCell ==
    /\ pc = "wv"
    /\ channel' = 9
    /\ \E f \in SatFiles(feed, 9) :
        /\ ds' = f
        /\ rad' = f.Rad
        /\ dataproj' = f.crs
        /\ x' = f.x
        /\ y' = f.y
        /\ vtime' = CoverageEnd(f)
        /\ wv_rad' = f.Rad
        /\ fk1' = f.planck_fk1
        /\ fk2' = f.planck_fk2
        /\ bc1' = f.planck_bc1
        /\ bc2' = f.planck_bc2
        /\ wv_BT' = [i \in DOMAIN f.Rad |->
                        WVBrightness(f.planck_fk1, f.planck_fk2,
                                     f.planck_bc1, f.planck_bc2, f.Rad[i])]
    /\ pc' = "energy"
    /\ UNCHANGED <<feed, ir_rad, T, ir_BT, sb_constant, E, vis, gfsVars, isenVars>>

\* sb_constant = 5.67e-8; E = sb_constant*wv_BT**4
EnergyCell ==
    /\ pc = "energy"
    /\ sb_constant' = StefanBoltzmann
    /\ E' = [i \in DOMAIN wv_BT |-> EmittedEnergy(StefanBoltzmann, wv_BT[i])]
    /\ pc' = "vis"
    /\ UNCHANGED <<feed, satVars, irVars, wv_rad, wv_BT, vis, gfsVars, isenVars>>

\* The visible cell: channel 1's file, its axes, vis.
VisibleCell ==
    /\ pc = "vis"
    /\ channel' = 1
    /\ \E f \in SatFiles(feed, 1) :
        /\ ds' = f
        /\ rad' = f.Rad
        /\ dataproj' = f.crs
        /\ x' = f.x
        /\ y' = f.y
        /\ vtime' = CoverageEnd(f)
        /\ vis' = [i \in DOMAIN f.Rad |-> Reflectance(f.Rad[i], f.kappa0)]
    /\ pc' = "open_gfs"
    /\ UNCHANGED <<feed, irVars, wvVars, gfsVars, isenVars>>

(***************************************************************************)
(* The GFS analysis.  A 4-D variable is held as its time-0 slab, indexed    *)
(* (level, lat, lon) from 0: a synthetic ramp, with the cells listed in win *)
(* overridden.  lat and lon are in half degrees (the 0.5-degree grid).      *)
(***************************************************************************)
NLev == 2           \* isobaric levels of a GFS file

Min(a, b) == IF a < b THEN a ELSE b
Max(a, b) == IF a > b THEN a ELSE b
Size(a) == Cardinality(DOMAIN a)

GridAt(F, k, i, j) ==
    IF <<k, i, j>> \in DOMAIN F.win THEN F.win[<<k, i, j>>]
    ELSE FromInt((31 * i + j + 7 * k + F.seed) % 1021)

\* lon_slice = slice(400,601); lat_slice = slice(10,160)
lon_slice == [start |-> 400, stop |-> 601]
lat_slice == [start |-> 10, stop |-> 160]

\* Python's slice.indices for a step of 1: both ends are clipped to the
\* length of the axis, and nothing is raised.
SliceLo(sl, n) == Min(sl.start, n)
\* (the stop index taken as included)
SliceHiInclusive(sl, n) == Max(Min(sl.stop + 1, n), SliceLo(sl, n))
SliceHi(sl, n) == Max(Min(sl.stop, n), SliceLo(sl, n))
SliceLen(sl, n) == SliceHi(sl, n) - SliceLo(sl, n)

\* a[sl] for a 1-D array
Slice1(a, sl) ==
    [i \in 0 .. (SliceLen(sl, Size(a)) - 1) |-> a[SliceLo(sl, Size(a)) + i]]

\* ds[name].data[0,:,lat_slice,lon_slice]
Subset3(F, lsl, osl) ==
    [k \in 0 .. (F.shape[1] - 1) |->
      [i \in 0 .. (SliceLen(lsl, F.shape[2]) - 1) |->
        [j \in 0 .. (SliceLen(osl, F.shape[3]) - 1) |->
            GridAt(F, k, SliceLo(lsl, F.shape[2]) + i, SliceLo(osl, F.shape[3]) + j)]]]

(***************************************************************************)
(* scipy.ndimage.gaussian_filter(input, sigma=1.0): a scalar sigma is the   *)
(* standard deviation along every axis of the input, so a 3-D input is      *)
(* filtered along level, lat and lon in turn.  The kernel is truncated at   *)
(* 4 sigma and the borders are extended by reflection (mode='reflect').     *)
(***************************************************************************)
GaussRadius == 4

Phi(t) == FExp(FR(-(t * t), 2))
PhiSum ==
    LET add(acc, t) == FAdd(acc, Phi(t))
    IN  add(add(add(add(add(add(add(add(Phi(4), 3), 2), 1), 0), 1), 2), 3), 4)
GaussKernel == [t \in 0 .. GaussRadius |-> FDiv(Phi(t), PhiSum)]
GaussWeight(t) == GaussKernel[t]

Reflect(idx, n) ==
    LET r == idx % (2 * n) IN IF r < n THEN r ELSE 2 * n - 1 - r

\* One output sample of the symmetric correlation of a line with the kernel.
RECURSIVE CorrelateFrom(_, _, _, _)
CorrelateFrom(line, l, t, acc) ==
    IF t = 0 THEN acc
    ELSE LET n == Size(line)
             pair == FAdd(line[Reflect(l - t, n)], line[Reflect(l + t, n)])
         IN  CorrelateFrom(line, l, t - 1, FAdd(acc, FMul(pair, GaussWeight(t))))

Correlate(line, l) ==
    CorrelateFrom(line, l, GaussRadius, FMul(line[l], GaussWeight(0)))

FilterLevels(A0) ==
    Call1(LAMBDA A :
        [k \in DOMAIN A |-> [i \in DOMAIN A[0] |-> [j \in DOMAIN A[0][0] |->
            Correlate([t \in DOMAIN A |-> A[t][i][j]], k)]]],
    A0)
FilterLats(A0) ==
    Call1(LAMBDA A :
        [k \in DOMAIN A |-> [i \in DOMAIN A[0] |-> [j \in DOMAIN A[0][0] |->
            Correlate([t \in DOMAIN A[0] |-> A[k][t][j]], i)]]],
    A0)
FilterLons(A0) ==
    Call1(LAMBDA A :
        [k \in DOMAIN A |-> [i \in DOMAIN A[0] |-> [j \in DOMAIN A[0][0] |->
            Correlate(A[k][i], j)]]],
    A0)

gaussian_filter(A) == FilterLons(FilterLats(FilterLevels(A)))

\* A pint quantity: a magnitude and its units.
Quantity(mag, u) == [m |-> mag, units |-> u]

(***************************************************************************)
(* metpy.calc.potential_temperature and isentropic_interpolation.           *)
(***************************************************************************)
Kappa == FR(2854, 10000)                       \* mpconsts.kappa = Rd / Cp_d
Pok == FPow(FromInt(1000), Kappa)              \* mpconsts.P0 ** ka, P0 in hPa

\* theta = T * (P0 / p) ** kappa, with P0 in the units of p
PotentialTemperature(p0, p, t) == FMul(t, FPow(FDiv(p0, p), Kappa))

\* thta = mpcalc.potential_temperature(pres[:, None, None], tmpk), pres in Pa
ThetaField(p, t) ==
    [k \in DOMAIN t |-> [i \in DOMAIN t[0] |-> [j \in DOMAIN t[0][0] |->
        PotentialTemperature(FromInt(100000), p[k], t[k][i][j])]]]

\* np.argsort: the indices in increasing order of value, NaN last.
ArgSort(a0) ==
    Call1(LAMBDA a :
        LET before(u, s) ==
                IF IsNaN(a[u]) THEN IsNaN(a[s]) /\ u < s
                ELSE IsNaN(a[s]) \/ FLt(a[u], a[s]) \/ (FEq(a[u], a[s]) /\ u < s)
            rank(s) == Cardinality({u \in DOMAIN a : before(u, s)})
        IN  [r \in DOMAIN a |-> CHOOSE s \in DOMAIN a : rank(s) = r],
    a0)

\* a[order]
Take(a, order) == [r \in DOMAIN order |-> a[order[r]]]

\* sorter: the levels by decreasing pressure, np.argsort(...)[::-1]
Sorter(p) ==
    Call1(LAMBDA up : [r \in DOMAIN up |-> up[Size(up) - 1 - r]], ArgSort(p))

\* One column as isentropic_interpolation and interpolate_1d see it: levs,
\* tmpk and the winds sorted from the highest pressure down, pres_theta and
\* log_p on those levels, and theta with the winds sorted by theta.
Column(p, tk, u, v) ==
    Call1(LAMBDA down :
        Call2(LAMBDA levs, th :
            Call1(LAMBDA byTheta :
                [levs |-> levs, tmpk |-> Take(tk, down), theta |-> th,
                 log_p |-> [s \in DOMAIN levs |-> FLog(levs[s])],
                 xp |-> Take(th, byTheta),
                 u |-> Take(Take(u, down), byTheta),
                 v |-> Take(Take(v, down), byTheta)],
            ArgSort(th)),
        Take(p, down),
        [s \in DOMAIN down |->
            PotentialTemperature(FromInt(1000), p[down[s]], tk[down[s]])]),
    Sorter(p))

\* find_bounding_indices(pres_theta, levels, from_below=True): the levels
\* above which (theta <= value) flips; good when there is such a level, and
\* above is then the first one.
Flips(th, t) ==
    {s \in 1 .. (Size(th) - 1) : FLe(th[s - 1], t) # FLe(th[s], t)}
First(S) == CHOOSE s \in S : \A o \in S : s <= o

\* _isen_iter: one Newton step for the log of the pressure at which the
\* temperature a * log_p + b has the potential temperature th.
isen_iter(lp0, th, a, b) ==
    Call1(LAMBDA lp :
        Call2(LAMBDA exner, t :
            FSub(lp, FDiv(FSub(th, FMul(t, exner)),
                          FMul(exner, FSub(FMul(Kappa, t), a)))),
        FMul(Pok, FExp(FNeg(FMul(Kappa, lp)))), FAdd(FMul(a, lp), b)),
    lp0)

IterSteps == 2      \* steps of _isen_iter taken for scipy's fixed_point

\* so.fixed_point(_isen_iter, isentprs[good], ...): the fixed point of
\* _isen_iter from the first guess, to within the floats' precision.
RECURSIVE fixed_point(_, _, _, _, _)
fixed_point(lp, th, a, b, n) ==
    IF n = 0 THEN lp ELSE fixed_point(isen_iter(lp, th, a, b), th, a, b, n - 1)

\* _less_or_close(a, value): (a < value) | np.isclose(a, value)
LessOrClose(a, value) ==
    \/ FLt(a, value)
    \/ /\ IsFinite(a) /\ IsFinite(value)
       /\ FLe(FSub(IF FLt(a, value) THEN value ELSE a, IF FLt(a, value) THEN a ELSE value),
              FAdd(FR(1, 100000000),
                   FMul(FR(1, 100000), IF value.s < 0 THEN FNeg(value) ELSE value)))

\* The pressure (hPa) of the isentropic surface t in one column: NaN where
\* the column has no bounding levels or the solution exceeds the highest
\* pressure.
IsentropicPressure(c, t) ==
    IF Flips(c.theta, t) = {} THEN NaN
    ELSE Call1(LAMBDA above :
            Call1(LAMBDA a :
                IF IsNaN(a) THEN NaN
                ELSE Call1(LAMBDA solved :
                        IF LessOrClose(solved, c.levs[0]) THEN solved ELSE NaN,
                     FExp(fixed_point(
                        FMul(FR(1, 2), FAdd(c.log_p[above], c.log_p[above - 1])),
                        t, a, FSub(c.tmpk[above], FMul(a, c.log_p[above])),
                        IterSteps))),
            FDiv(FSub(c.tmpk[above], c.tmpk[above - 1]),
                 FSub(c.log_p[above], c.log_p[above - 1]))),
         First(Flips(c.theta, t)))

\* interpolate_1d(isentlevels, pres_theta, var): linear in theta between
\* the neighbours of t in the sorted profile xp, NaN outside the profile.
Interpolate1d(xp, var, t) ==
    Call1(LAMBDA minv :                        \* np.searchsorted(xp, t)
        IF minv = Size(xp) THEN NaN
        ELSE Call1(LAMBDA above :
                IF FLt(t, xp[above - 1]) THEN NaN
                ELSE FAdd(var[above - 1],
                          FMul(FSub(var[above], var[above - 1]),
                               FDiv(FSub(t, xp[above - 1]),
                                    FSub(xp[above], xp[above - 1])))),
             IF minv = 0 THEN 1 ELSE minv),
    Cardinality({r \in DOMAIN xp : FLt(xp[r], t)}))

\* np.max(pres_theta.m) < np.max(levels): the call raises ValueError('Input
\* theta level out of data bounds').
OutOfDataBounds(cols, levs) ==
    \E top \in DOMAIN levs :
        /\ \A l \in DOMAIN levs : FLe(levs[l], levs[top])
        /\ \A i \in DOMAIN cols : \A j \in DOMAIN cols[i] :
             \A s \in DOMAIN cols[i][j].theta : FLt(cols[i][j].theta[s], levs[top])

\* mpcalc.isentropic_interpolation(isentlevs, pres, tmpk, uwnd, vwnd):
\* pressure (hPa), u and v on every target level, indexed (level, lat, lon),
\* or the ValueError.
isentropic_interpolation(levs, p, tk, u, v) ==
    LET col(A, i, j) == [k \in DOMAIN A |-> A[k][i][j]]
        hPa == [k \in DOMAIN p.m |-> FDiv(p.m[k], FromInt(100))]
        on(cols, f(_, _)) ==
            [l \in DOMAIN levs.m |-> [i \in DOMAIN cols |-> [j \in DOMAIN cols[i] |->
                f(cols[i][j], levs.m[l])]]]
        eastward(c, t) == Interpolate1d(c.xp, c.u, t)
        northward(c, t) == Interpolate1d(c.xp, c.v, t)
    IN  Call1(LAMBDA cols :
            IF OutOfDataBounds(cols, levs.m) THEN [raised |-> "ValueError"]
            ELSE [raised |-> "",
                  ret |-> <<Quantity(on(cols, IsentropicPressure), "hPa"),
                            Quantity(on(cols, eastward), u.units),
                            Quantity(on(cols, northward), v.units)>>],
        [i \in DOMAIN tk.m[0] |-> [j \in DOMAIN tk.m[0][0] |->
            Column(hPa, col(tk.m, i, j), col(u.m, i, j), col(v.m, i, j))]])

\* isentlevs = list(range(280,331,2)) * units.K
IsentLevels == Quantity([l \in 0 .. 25 |-> FromInt(280 + 2 * l)], "K")

\* Quantity.ito('kt') from m/s: 1 kt = 1852/3600 m/s
ToKnots(q) ==
    Quantity([l \in DOMAIN q.m |-> [i \in DOMAIN q.m[0] |-> [j \in DOMAIN q.m[0][0] |->
                FMul(q.m[l][i][j], FR(3600, 1852))]]], "kt")

(***************************************************************************)
(* The GFS files a catalog can serve.                                       *)
(***************************************************************************)
Levels == 0 .. (NLev - 1)

\* Pressure (Pa) of the s-th level above the surface, and two temperature
\* profiles (K), a warm and a cold column.
LevelPressure(s) == FromInt(100000 \div Pow2(s))
ProfileT(c, s) == FromInt((IF c = "warm" THEN 320 ELSE 272) - 32 * s)

\* The level axis runs upward or downward.
AxisStep(order, k) == IF order = "up" THEN k ELSE NLev - 1 - k

Field(nlat, nlon, sd, cells) ==
    [shape |-> <<NLev, nlat, nlon>>, seed |-> sd, win |-> cells]

NoCells == [c \in {} |-> NaN]

GFSFile(nlat, nlon, order, tcells, ucells, vcells, sd) ==
    [source |-> "GFS",
     lat |-> [i \in 0 .. (nlat - 1) |-> 180 - i],
     lon |-> [j \in 0 .. (nlon - 1) |-> j],
     isobaric |-> [k \in Levels |-> LevelPressure(AxisStep(order, k))],
     Temperature_isobaric |-> Field(nlat, nlon, sd, tcells),
     u_component_of_wind_isobaric |-> Field(nlat, nlon, sd + 1, ucells),
     v_component_of_wind_isobaric |-> Field(nlat, nlon, sd + 2, vcells),
     time |-> [source |-> "GFS", channel |-> 0]]

\* A small regional grid: the cells at and beyond the slices' starts.
RegionCells == {<<k, i, j>> : k \in Levels, i \in {10, 11}, j \in {400, 401}}
Columns == {<<i, j>> : i \in {10, 11}, j \in {400, 401}}

RegionalFile(order, kind, wind) ==
    GFSFile(12, 402, order,
        [c \in RegionCells |-> ProfileT(kind[<<c[2], c[3]>>], AxisStep(order, c[1]))],
        [c \in RegionCells |->
            IF wind = "calm" THEN Zero(1)
            ELSE FromInt(5 * (AxisStep(order, c[1]) + 1) + c[2] - 10)],
        [c \in RegionCells |->
            IF wind = "calm" THEN Zero(1)
            ELSE FromInt(c[3] - 400 - 3 * AxisStep(order, c[1]))],
        0)

GFSFiles(f) ==
    IF f = "classroom"
    THEN {RegionalFile("down", [c \in Columns |-> IF c[1] = 10 THEN w ELSE "cold"], "windy") :
            w \in {"warm", "cold"}}
    ELSE IF f = "grid"
    THEN {GFSFile(nlat, nlon, "down", NoCells, NoCells, NoCells, sd) :
            nlat \in {5, 12, 160, 161, 361}, nlon \in {300, 402, 601, 720},
            sd \in {0, 1, 2}}
    ELSE {RegionalFile(order, kind, wind) :
            order \in {"up", "down"}, kind \in [Columns -> {"warm", "cold"}],
            wind \in {"calm", "windy"}}

(***************************************************************************)
(* The GFS cells.                                                           *)
(***************************************************************************)
\* ds = xr.open_dataset(latest_gfs)
OpenGFS ==
    /\ pc = "open_gfs"
    /\ \E f \in GFSFiles(feed) : ds' = f
    /\ pc' = "subset"
    /\ UNCHANGED <<feed, channel, rad, dataproj, x, y, vtime, irVars, wvVars,
                   vis, gfsVars, isenVars>>

\* datetime.strptime(str(ds.Geopotential_height_isobaric.time.data[0]...))
AnalysisTime(file) == [valid |-> file.time]

\* The subset cell: axes, their slices, the smoothed subsets and theta.
SubsetCell ==
    /\ pc = "subset"
    /\ lats' = ds.lat
    /\ lons' = ds.lon
    /\ slons' = Slice1(ds.lon, lon_slice)
    /\ slats' = Slice1(ds.lat, lat_slice)
    /\ pres' = Quantity(ds.isobaric, "Pa")
    /\ tmpk' = Quantity(gaussian_filter(
                    Subset3(ds.Temperature_isobaric, lat_slice, lon_slice)), "K")
    /\ uwnd' = Quantity(gaussian_filter(
                    Subset3(ds.u_component_of_wind_isobaric, lat_slice, lon_slice)), "m/s")
    /\ vwnd' = Quantity(gaussian_filter(
                    Subset3(ds.v_component_of_wind_isobaric, lat_slice, lon_slice)), "m/s")
    /\ thta' = Quantity(ThetaField(pres'.m, tmpk'.m), "K")
    /\ vtime' = AnalysisTime(ds)
    /\ pc' = "isentropic"
    /\ UNCHANGED <<feed, channel, ds, rad, dataproj, x, y, irVars, wvVars, vis,
                   sub, isenVars>>

\* The subset expression alone: the axes' slices and
\* ds['Temperature_isobaric'].data[0,:,lat_slice,lon_slice] before smoothing.
TakeSubset ==
    /\ pc = "subset"
    /\ lats' = ds.lat
    /\ lons' = ds.lon
    /\ slons' = Slice1(ds.lon, lon_slice)
    /\ slats' = Slice1(ds.lat, lat_slice)
    /\ sub' = Subset3(ds.Temperature_isobaric, lat_slice, lon_slice)
    /\ pc' = "subset_taken"
    /\ UNCHANGED <<feed, satVars, irVars, wvVars, vis, pres, tmpk, uwnd, vwnd,
                   thta, isenVars>>

\* The isentropic cell: the target levels, the interpolation, and the winds
\* converted to knots in place.  When the interpolation raises, the names
\* bound after it stay as they were.
IsentropicCell ==
    /\ pc = "isentropic"
    /\ isentlevs' = IsentLevels
    /\ \E isent_anal \in {isentropic_interpolation(IsentLevels, pres, tmpk, uwnd, vwnd)} :
         IF isent_anal.raised # ""
         THEN /\ pc' = isent_anal.raised
              /\ UNCHANGED <<isentprs, isentu, isentv>>
         ELSE /\ isentprs' = isent_anal.ret[1]
              /\ isentu' = ToKnots(isent_anal.ret[2])
              /\ isentv' = ToKnots(isent_anal.ret[3])
              /\ pc' = "overlay"
    /\ UNCHANGED <<feed, satVars, irVars, wvVars, vis, gfsVars, ilev>>

\* (the position counted from one)
IndexOfOneBased(a, v) ==
    1 + (CHOOSE l \in DOMAIN a : FEq(a[l], v) /\ \A h \in 0 .. (l - 1) : ~FEq(a[h], v))

\* list(isentlevs.m).index(310)
IndexOf(a, v) == CHOOSE l \in DOMAIN a : FEq(a[l], v) /\ \A h \in 0 .. (l - 1) : ~FEq(a[h], v)

\* The overlay cell: the level to plot.
OverlayCell ==
    /\ pc = "overlay"
    /\ \E l \in DOMAIN isentlevs.m : FEq(isentlevs.m[l], FromInt(310))
    /\ ilev' = IndexOf(isentlevs.m, FromInt(310))
    /\ pc' = "done"
    /\ UNCHANGED <<feed, satVars, irVars, wvVars, vis, gfsVars, isentlevs,
                   isentprs, isentu, isentv>>

(***************************************************************************)
(* Specifications.  Spec runs the notebook's cells top to bottom on the     *)
(* classroom feed.  Each of the others runs one section of the notebook,    *)
(* which opens its own file, on a fresh kernel and a wider feed.            *)
(***************************************************************************)
Fresh(cell, f) ==
    /\ pc = cell
    /\ feed = f
    /\ channel = Unbound /\ ds = Unbound /\ rad = Unbound /\ dataproj = Unbound
    /\ x = Unbound /\ y = Unbound /\ vtime = Unbound
    /\ ir_rad = Unbound /\ fk1 = Unbound /\ fk2 = Unbound /\ bc1 = Unbound
    /\ bc2 = Unbound /\ T = Unbound /\ ir_BT = Unbound
    /\ wv_rad = Unbound /\ wv_BT = Unbound /\ sb_constant = Unbound /\ E = Unbound
    /\ vis = Unbound
    /\ lats = Unbound /\ lons = Unbound /\ slons = Unbound /\ slats = Unbound
    /\ sub = Unbound /\ pres = Unbound /\ tmpk = Unbound /\ uwnd = Unbound
    /\ vwnd = Unbound /\ thta = Unbound
    /\ isentlevs = Unbound /\ isentprs = Unbound /\ isentu = Unbound
    /\ isentv = Unbound /\ ilev = Unbound

Init == Fresh("channel14", "classroom")
Next ==
    \/ SetChannel14 \/ OpenDataset \/ GetProjection \/ IsolateRadiance
    \/ ConvertIR \/ WaterVaporCell \/ EnergyCell \/ VisibleCell
    \/ OpenGFS \/ SubsetCell \/ IsentropicCell \/ OverlayCell
Spec == Init /\ [][Next]_vars

InitIR == Fresh("channel14", "infrared")
NextIR ==
    \/ SetChannel14 \/ OpenDataset \/ GetProjection \/ IsolateRadiance
    \/ ConvertIR
SpecIR == InitIR /\ [][NextIR]_vars

InitWV == Fresh("wv", "water vapor")
NextWV == WaterVaporCell \/ EnergyCell
SpecWV == InitWV /\ [][NextWV]_vars

InitVis == Fresh("vis", "visible")
NextVis == VisibleCell
SpecVis == InitVis /\ [][NextVis]_vars

InitGFS == Fresh("open_gfs", "regional")
NextGFS == OpenGFS \/ SubsetCell \/ IsentropicCell \/ OverlayCell
SpecGFS == InitGFS /\ [][NextGFS]_vars

InitSubset == Fresh("open_gfs", "grid")
NextSubset == OpenGFS \/ TakeSubset
SpecSubset == InitSubset /\ [][NextSubset]_vars

(***************************************************************************)
(* Properties.  Comparisons of floats are IEEE comparisons: they are false  *)
(* when an operand is NaN.                                                  *)
(***************************************************************************)
IsPositive(a) == FLt(Zero(1), a)
IsNegative(a) == FLt(a, Zero(1))
FAbs(a) == IF IsNaN(a) THEN NaN ELSE [a EXCEPT !.s = 1]
Normal(a) == IsFinite(a) /\ a.m >= Pow2(PREC - 1)

\* C1: the IR conversion of a field with exactly one zero-radiance cell and
\* otherwise positive radiance leaves exactly that cell NaN, completes, and
\* gives every other cell the valid value it gets when computed alone.
C1_ZeroRadianceCellUndefined ==
    pc = "wv" =>
        \A i \in DOMAIN ir_rad :
            (/\ IsZero(ir_rad[i])
             /\ \A j \in DOMAIN ir_rad \ {i} : IsPositive(ir_rad[j]))
            => /\ IsNaN(ir_BT[i])
               /\ \A j \in DOMAIN ir_rad \ {i} :
                    /\ ~IsNaN(ir_BT[j])
                    /\ ir_BT[j] = ScaleOffset(bc1, bc2,
                                      InversePlanck(fk1, fk2, ir_rad[j]))

\* C2: every cell of negative radiance is NaN in the IR brightness
\* temperature and in the water-vapor brightness temperature.
C2_NegativeRadianceUndefined ==
    /\ pc = "wv" =>
        \A i \in DOMAIN ir_rad : IsNegative(ir_rad[i]) => IsNaN(ir_BT[i])
    /\ pc = "energy" =>
        \A i \in DOMAIN wv_rad : IsNegative(wv_rad[i]) => IsNaN(wv_BT[i])

\* C3: slicing lon [400,601) and lat [10,160) out of a grid that holds both
\* ranges gives, on every level, a (150, 201) lat-by-lon array whose element
\* [i][j] is the source's element [10+i][400+j]; 160 and 601 are excluded.
C3_SubsetMatchesDirectIndexing ==
    (pc = "subset_taken" /\ Size(lats) >= 160 /\ Size(lons) >= 601) =>
        /\ DOMAIN sub = 0 .. (ds.Temperature_isobaric.shape[1] - 1)
        /\ \A k \in DOMAIN sub :
            /\ DOMAIN sub[k] = 0 .. 149
            /\ \A i \in 0 .. 149 :
                /\ DOMAIN sub[k][i] = 0 .. 200
                /\ \A j \in 0 .. 200 :
                    sub[k][i][j] = GridAt(ds.Temperature_isobaric, k, 10 + i, 400 + j)
        /\ DOMAIN slats = 0 .. 149 /\ \A i \in 0 .. 149 : slats[i] = lats[10 + i]
        /\ DOMAIN slons = 0 .. 200 /\ \A j \in 0 .. 200 : slons[j] = lons[400 + j]

\* C3 witness: the subset of a 361 x 720 grid has been taken and its last
\* element is the source's element [159][600].
C3_Witness ==
    /\ pc = "subset_taken"
    /\ Size(lats) = 361 /\ Size(lons) = 720
    /\ Size(sub[0]) = 150 /\ Size(sub[0][0]) = 201
    /\ sub[1][149][200] = GridAt(ds.Temperature_isobaric, 1, 159, 600)
    /\ sub[1][149][200] # GridAt(ds.Temperature_isobaric, 1, 160, 601)

\* C4: the subset is returned only when both index ranges lie inside the
\* grid; with a range reaching outside, the cell fails with a RangeError and
\* returns no shortened or empty array.
C4_SubsetOutsideGridFails ==
    pc = "subset_taken" => (Size(lats) >= 160 /\ Size(lons) >= 601)

\* The smoothed level k of a field whose other levels are replaced by
\* copies of level k.
LevelCopies(A, k) == [t \in DOMAIN A |-> A[k]]
SmoothedAlone(F, k) ==
    gaussian_filter(LevelCopies(Subset3(F, lat_slice, lon_slice), k))[k]

\* C5: the smoothed temperature, u-wind and v-wind of level k depend on the
\* input of level k only: they are what the smoothing gives for level k
\* when the input of every other level is changed.
C5_SmoothingPerLevel ==
    pc = "isentropic" =>
        \A k \in DOMAIN tmpk.m :
            /\ tmpk.m[k] = SmoothedAlone(ds.Temperature_isobaric, k)
            /\ uwnd.m[k] = SmoothedAlone(ds.u_component_of_wind_isobaric, k)
            /\ vwnd.m[k] = SmoothedAlone(ds.v_component_of_wind_isobaric, k)

\* a and b agree to within the relative tolerance tol.
Within(a, b, tol) ==
    FEq(a, b) \/ FLe(FAbs(FSub(a, b)), FMul(tol, FAbs(b)))

\* Two units of the last place of a float.
Rounding == FR(1, Pow2(PREC - 2))

\* C6: per cell, where radiance * kappa0 >= 0 the reflectance is the
\* non-negative r with r * r = radiance * kappa0 (to within rounding), and
\* where radiance * kappa0 < 0 that cell, and no cell of the first kind, is
\* NaN.
C6_ReflectanceIsRootOfProduct ==
    pc = "open_gfs" =>
        \A i \in DOMAIN vis :
            /\ FLe(Zero(1), FMul(rad[i], ds.kappa0)) =>
                /\ FLe(Zero(1), vis[i])
                /\ Within(FMul(vis[i], vis[i]), FMul(rad[i], ds.kappa0), Rounding)
            /\ IsNegative(FMul(rad[i], ds.kappa0)) => IsNaN(vis[i])

\* C6 witness: an image with a cell of negative product, which is NaN, and
\* a cell of positive product, whose reflectance is a positive number.
C6_Witness ==
    /\ pc = "open_gfs"
    /\ \E i \in DOMAIN vis : \E j \in DOMAIN vis :
        /\ IsNegative(FMul(rad[i], ds.kappa0)) /\ IsNaN(vis[i])
        /\ IsPositive(FMul(rad[j], ds.kappa0)) /\ IsPositive(vis[j])
        /\ IsFinite(vis[j])

\* The target level l lies below, or above, every potential temperature of
\* the column (i, j); or strictly between two of them.
OutsideProfile(l, i, j) ==
    \/ \A k \in DOMAIN thta.m : FLt(isentlevs.m[l], thta.m[k][i][j])
    \/ \A k \in DOMAIN thta.m : FLt(thta.m[k][i][j], isentlevs.m[l])
InsideProfile(l, i, j) ==
    /\ \E k \in DOMAIN thta.m : FLt(thta.m[k][i][j], isentlevs.m[l])
    /\ \E k \in DOMAIN thta.m : FLt(isentlevs.m[l], thta.m[k][i][j])

\* C7: the interpolation returns, and for a target level outside a column's
\* potential-temperature range that column's pressure and winds on the level
\* are NaN (which no valid zero is), while they are numbers for a target
\* inside the column's range.
C7_OutsideRangeUndefined ==
    /\ pc # "ValueError"
    /\ pc = "overlay" =>
        \A l \in DOMAIN isentlevs.m : \A i \in DOMAIN thta.m[0] :
            \A j \in DOMAIN thta.m[0][0] :
                /\ OutsideProfile(l, i, j) =>
                    /\ IsNaN(isentprs.m[l][i][j])
                    /\ IsNaN(isentu.m[l][i][j])
                    /\ IsNaN(isentv.m[l][i][j])
                /\ InsideProfile(l, i, j) =>
                    /\ ~IsNaN(isentprs.m[l][i][j])
                    /\ ~IsNaN(isentu.m[l][i][j])
                    /\ ~IsNaN(isentv.m[l][i][j])

\* a and b are the same result: equal numbers, or both NaN.
Same(a, b) == FEq(a, b) \/ (IsNaN(a) /\ IsNaN(b))

\* E for the doubled temperature, and sixteen times E.
EmittedTwice(i) == EmittedEnergy(sb_constant, FMul(FromInt(2), wv_BT[i]))
SixteenFold(i) == FMul(FromInt(16), E[i])

\* C8 as stated: E is non-negative for every finite temperature, negative
\* ones included, and E(2T) = 16 E(T) for every temperature.
C8_FluxNonNegativeAndQuartic ==
    pc = "vis" =>
        \A i \in DOMAIN wv_BT :
            /\ IsFinite(wv_BT[i]) => FLe(Zero(1), E[i])
            /\ Same(EmittedTwice(i), SixteenFold(i))

\* C8 as amended: E is non-negative for every finite temperature, negative
\* ones included, and E(2T) = 16 E(T) for every temperature whose E(T) is
\* not below the normal range of the floats and whose E(2T) is not above it.
C8_FluxNonNegativeAndQuarticInRange ==
    pc = "vis" =>
        \A i \in DOMAIN wv_BT :
            /\ IsFinite(wv_BT[i]) => FLe(Zero(1), E[i])
            /\ (Normal(E[i]) /\ IsFinite(EmittedTwice(i))) =>
                FEq(EmittedTwice(i), SixteenFold(i))

\* C8 witness: a negative finite temperature whose E is a positive normal
\* number, with E(2T) finite.
C8_Witness ==
    /\ pc = "vis"
    /\ \E i \in DOMAIN wv_BT :
        /\ IsFinite(wv_BT[i]) /\ IsNegative(wv_BT[i])
        /\ Normal(E[i]) /\ IsPositive(E[i]) /\ IsFinite(EmittedTwice(i))

\* The way back from a brightness temperature: T = (BT - bc1)/bc2, then the
\* Planck function.
RadianceOf(k1, k2, c1, c2, BT) == Planck(k1, k2, FDiv(FSub(BT, c1), c2))

\* The tolerance of a round trip through log and exp at PREC bits.
RoundTripTolerance == FR(1, 16)

\* C9: for every positive radiance, the way back from the brightness
\* temperature reproduces the radiance to within tolerance, both for the
\* IR form bc2*T + bc1 and for the water-vapor form (T - bc1)/bc2.
C9_RoundTripReproducesRadiance ==
    /\ pc = "wv" =>
        \A i \in DOMAIN ir_rad :
            IsPositive(ir_rad[i]) =>
                Within(RadianceOf(fk1, fk2, bc1, bc2, ir_BT[i]), ir_rad[i],
                       RoundTripTolerance)
    /\ pc = "energy" =>
        \A i \in DOMAIN wv_rad :
            IsPositive(wv_rad[i]) =>
                Within(RadianceOf(fk1, fk2, bc1, bc2, wv_BT[i]), wv_rad[i],
                       RoundTripTolerance)

\* The constants the claim calls valid.
ValidConstants == IsPositive(fk1) /\ IsPositive(fk2)

\* C10 as stated: with fk1 > 0 and fk2 > 0, of two positive radiances the
\* larger has the strictly larger IR brightness temperature.
C10_StrictlyIncreasing ==
    (pc = "wv" /\ ValidConstants) =>
        \A i \in DOMAIN ir_rad : \A j \in DOMAIN ir_rad :
            (IsPositive(ir_rad[i]) /\ FLt(ir_rad[i], ir_rad[j])) =>
                FLt(ir_BT[i], ir_BT[j])

\* C10 as amended: with fk1 > 0, fk2 > 0 and bc2 > 0, of two positive
\* radiances the larger has an IR brightness temperature at least as large.
C10_NonDecreasing ==
    (pc = "wv" /\ ValidConstants /\ IsPositive(bc2)) =>
        \A i \in DOMAIN ir_rad : \A j \in DOMAIN ir_rad :
            (IsPositive(ir_rad[i]) /\ FLt(ir_rad[i], ir_rad[j])) =>
                FLe(ir_BT[i], ir_BT[j])

\* C10 witness: two positive radiances of one image with finite brightness
\* temperatures in the same strict order, under fk1 > 0, fk2 > 0, bc2 > 0.
C10_Witness ==
    /\ pc = "wv" /\ ValidConstants /\ IsPositive(bc2)
    /\ \E i \in DOMAIN ir_rad : \E j \in DOMAIN ir_rad :
        /\ IsPositive(ir_rad[i]) /\ FLt(ir_rad[i], ir_rad[j])
        /\ IsFinite(ir_BT[i]) /\ IsFinite(ir_BT[j]) /\ FLt(ir_BT[i], ir_BT[j])

\* The cells that have run bind the names they assign: the cell that is next
\* when a name is not yet bound.
BeforeIR == {"channel14", "open_dataset", "projection", "isolate", "convert_ir"}
BeforeWV == BeforeIR \cup {"wv"}
BeforeE == BeforeWV \cup {"energy"}
BeforeVis == BeforeE \cup {"vis"}

\* C11: no derived field is changed after it is created.  The brightness
\* temperatures, the emitted energy and the reflectance keep their values in
\* every later step, and the isentropic pressure, u-wind and v-wind the
\* notebook holds after the isentropic cell are, in values and units, the
\* surfaces the interpolation produced.
C11_DerivedFieldsNeverMutated ==
    /\ [][/\ pc \notin BeforeIR => (ir_BT' = ir_BT /\ T' = T)
          /\ pc \notin BeforeWV => wv_BT' = wv_BT
          /\ pc \notin BeforeE => E' = E
          /\ pc \notin BeforeVis => vis' = vis]_vars
    /\ [](pc \in {"overlay", "done"} =>
            \E made \in {isentropic_interpolation(isentlevs, pres, tmpk, uwnd, vwnd)} :
                /\ isentprs = made.ret[1]
                /\ isentu = made.ret[2]
                /\ isentv = made.ret[3])

\* The column (i, j) is stably stratified: potential temperature rises as
\* pressure falls.
StableColumn(i, j) ==
    \A k \in DOMAIN pres.m : \A h \in DOMAIN pres.m :
        FLt(pres.m[h], pres.m[k]) => FLt(thta.m[k][i][j], thta.m[h][i][j])

\* The surfaces of one output follow the target levels: surface l is NaN in
\* the columns whose range excludes target l and a number in those whose
\* range holds it.
FollowsLevels(out) ==
    \A l \in DOMAIN isentlevs.m : \A i \in DOMAIN thta.m[0] :
        \A j \in DOMAIN thta.m[0][0] :
            /\ OutsideProfile(l, i, j) => IsNaN(out.m[l][i][j])
            /\ InsideProfile(l, i, j) => ~IsNaN(out.m[l][i][j])

\* C12: the isentropic output has one surface per target level, in the
\* ascending order of the 26 levels 280, 282, ..., 330 K, and the index of
\* 310 K in the level list is within the pressure, u-wind and v-wind outputs
\* and is that of their 310 K surface.
C12_OneSurfacePerLevel ==
    pc = "done" =>
        /\ DOMAIN isentlevs.m = 0 .. 25
        /\ \A l \in 0 .. 25 : FEq(isentlevs.m[l], FromInt(280 + 2 * l))
        /\ DOMAIN isentprs.m = DOMAIN isentlevs.m
        /\ DOMAIN isentu.m = DOMAIN isentlevs.m
        /\ DOMAIN isentv.m = DOMAIN isentlevs.m
        /\ ilev \in DOMAIN isentprs.m
        /\ FEq(isentlevs.m[ilev], FromInt(310))
        /\ FollowsLevels(isentprs) /\ FollowsLevels(isentu) /\ FollowsLevels(isentv)
        /\ \A i \in DOMAIN thta.m[0] : \A j \in DOMAIN thta.m[0][0] :
            StableColumn(i, j) =>
                \A l \in DOMAIN isentprs.m : \A h \in DOMAIN isentprs.m :
                    (l < h /\ ~IsNaN(isentprs.m[l][i][j]) /\ ~IsNaN(isentprs.m[h][i][j]))
                    => FLe(isentprs.m[h][i][j], isentprs.m[l][i][j])

\* C12 witness: the overlay cell has found the index, and in a stable column
\* the 310 K surface has a pressure and winds, below the pressure of the
\* 308 K surface and above that of the 312 K surface.
C12_Witness ==
    /\ pc = "done"
    /\ \E i \in DOMAIN thta.m[0] : \E j \in DOMAIN thta.m[0][0] :
        /\ StableColumn(i, j)
        /\ ~IsNaN(isentu.m[ilev][i][j]) /\ ~IsNaN(isentv.m[ilev][i][j])
        /\ FLt(isentprs.m[ilev][i][j], isentprs.m[ilev - 1][i][j])
        /\ FLt(isentprs.m[ilev + 1][i][j], isentprs.m[ilev][i][j])

\* The fields the notebook derives from a satellite file.
BrightnessIR(f) ==
    [i \in DOMAIN f.Rad |->
        ScaleOffset(f.planck_bc1, f.planck_bc2,
            InversePlanck(f.planck_fk1, f.planck_fk2, f.Rad[i]))]

BrightnessWV(f) ==
    [i \in DOMAIN f.Rad |->
        WVBrightness(f.planck_fk1, f.planck_fk2, f.planck_bc1, f.planck_bc2, f.Rad[i])]

EnergyOf(f) ==
    [i \in DOMAIN f.Rad |->
        EmittedEnergy(StefanBoltzmann,
            WVBrightness(f.planck_fk1, f.planck_fk2, f.planck_bc1, f.planck_bc2,
                         f.Rad[i]))]

ReflectanceOf(f) == [i \in DOMAIN f.Rad |-> Reflectance(f.Rad[i], f.kappa0)]

ConstantsOf(f) == <<f.planck_fk1, f.planck_fk2, f.planck_bc1, f.planck_bc2>>

AfterIR == {"wv", "energy", "vis", "open_gfs", "subset", "isentropic", "overlay",
            "done", "ValueError"}
AfterWV == AfterIR \ {"wv"}
AfterE == AfterWV \ {"energy"}
AfterVis == AfterE \ {"vis"}

\* C13: running the cells top to bottom, each conversion takes its constants
\* from the file whose radiance it converts: when the infrared cell has run,
\* ds is the channel-14 file, ir_rad its radiance, fk1..bc2 its constants and
\* ir_BT their conversion; when the water-vapor cell has run, ds is the
\* channel-9 file, wv_rad, fk1..bc2 and wv_BT come from it, and E is computed
\* from that wv_BT; when the visible cell has run, ds is the channel-1 file
\* and vis, x, y, dataproj come from it.  From then on ir_BT, wv_BT, E and
\* vis stay the conversions of a channel-14, a channel-9, a channel-9 and a
\* channel-1 file, and at the overlay step vis, x, y and dataproj are those
\* of one channel-1 file while ds is the GFS file and vtime its analysis time.
C13_NamesFollowTheirDataset ==
    /\ pc = "wv" =>
          /\ ds.channel = 14 /\ ds \in SatFiles(feed, 14)
          /\ ir_rad = ds.Rad
          /\ <<fk1, fk2, bc1, bc2>> = ConstantsOf(ds)
          /\ ir_BT = BrightnessIR(ds)
    /\ pc \in {"energy", "vis"} =>
          /\ ds.channel = 9 /\ ds \in SatFiles(feed, 9)
          /\ wv_rad = ds.Rad
          /\ <<fk1, fk2, bc1, bc2>> = ConstantsOf(ds)
          /\ wv_BT = BrightnessWV(ds)
    /\ pc = "vis" => E = EnergyOf(ds)
    /\ pc = "open_gfs" =>
          /\ ds.channel = 1 /\ ds \in SatFiles(feed, 1)
          /\ rad = ds.Rad
          /\ vis = ReflectanceOf(ds)
          /\ x = ds.x /\ y = ds.y /\ dataproj = ds.crs
          /\ vtime = CoverageEnd(ds)
    /\ pc \in AfterIR => \E f \in SatFiles(feed, 14) : ir_BT = BrightnessIR(f)
    /\ pc \in AfterWV => \E f \in SatFiles(feed, 9) : wv_BT = BrightnessWV(f)
    /\ pc \in AfterE => \E f \in SatFiles(feed, 9) : wv_BT = BrightnessWV(f) /\ E = EnergyOf(f)
    /\ pc \in {"overlay", "done"} =>
          /\ \E f \in SatFiles(feed, 1) :
                /\ f.channel = 1
                /\ vis = ReflectanceOf(f)
                /\ x = f.x /\ y = f.y /\ dataproj = f.crs
          /\ ds \in GFSFiles(feed) /\ ds.source = "GFS"
          /\ vtime = AnalysisTime(ds)
          /\ vtime # CoverageEnd(CHOOSE f \in SatFiles(feed, 1) : TRUE)

\* C13 witness: the overlay cell has run after all three satellite cells; the
\* axes and projection carry channel 1, the constants still held are channel
\* 9's and differ from channel 14's, and ds is the GFS file.
C13_Witness ==
    /\ pc = "done"
    /\ x.channel = 1 /\ y.channel = 1 /\ dataproj.channel = 1
    /\ ds.source = "GFS" /\ vtime.valid.source = "GFS"
    /\ <<fk1, fk2, bc1, bc2>> \in {ConstantsOf(f) : f \in SatFiles(feed, 9)}
    /\ <<fk1, fk2, bc1, bc2>> \notin {ConstantsOf(f) : f \in SatFiles(feed, 14)}
    /\ \E i \in DOMAIN vis : IsPositive(vis[i])
    /\ \E i \in DOMAIN ir_BT : IsPositive(ir_BT[i])
    /\ \E i \in DOMAIN wv_BT : IsPositive(wv_BT[i])

=============================================================================
